---- MODULE Spec2Model ----
(***************************************************************************)
(* anakin: a subreaper that runs one command and kills every process that  *)
(* gets re-parented to it (src/main.rs).                                   *)
(*                                                                         *)
(* The model has three parts:                                              *)
(*   - the process table the program sees through /proc and kill(2):       *)
(*     st, ppid, comm, changed by the supervised processes (Fork, Exit,    *)
(*     Reap) and by the program's own signals;                             *)
(*   - main(): pc, subreaper, child, child_id, wstatus, exit_code,         *)
(*     exitStatus, err;                                                    *)
(*   - the running kill_children(except) future, advanced one await at a   *)
(*     time: kpc, except, cursor, entry, entryErr, ret.                    *)
(* obs, sweepDone, newQual, orph and last are history variables used by    *)
(* the properties.                                                         *)
(***************************************************************************)
EXTENDS Integers, Sequences, FiniteSets

\* ---------------------------------------------------------------- bounds
\* Process ids of the model: 1 is init, MyPid the supervisor, the others are
\* handed out (in any order: pid allocation wraps around) to the command and
\* its descendants, each at most once (no pid is recycled within a run).
MaxPid == 5

Pids == 1..MaxPid

\* std::process::id() of the supervisor.
MyPid == 2

\* The pids of the command and of its descendants.
Tree == Pids \ {1, MyPid}

\* A token that does not parse as a u32 (str::parse::<u32>() gives Err).
NaN == -1

\* Option<i32>::None of ExitStatus::code(): the child was killed by a signal.
NoCode == -1

\* wstatus of a child that has not terminated yet.
Running == -2

\* Exit codes the command may exit with (WEXITSTATUS is 0..255).
ExitCodes == {0, 255}

\* Process names (the comm field), as the words between the parentheses of
\* /proc/<pid>/stat: a word is NaN when it is no number, else the number.
\* "x", "Web Content" and "a b <MyPid> c".
Comms == { <<NaN>>, <<NaN, NaN>>, <<NaN, NaN, MyPid, NaN>> }

\* Entries of /proc that are no process: a file ("cpuinfo") and a directory
\* ("sys"); they are listed before the process directories.
StaticEntries == << [name |-> NaN, is_dir |-> FALSE], [name |-> NaN, is_dir |-> TRUE] >>

NStatic == Len(StaticEntries)

VARIABLES
    st,         \* pid -> "free" | "run" | "zombie" | "gone"
    ppid,       \* pid -> parent pid (0 for init)
    comm,       \* pid -> process name, a sequence of words
    pc,         \* main: "start" | "args" | "spawn" | "child_id" | "supervising" | "cleanup" | "done" | "failed"
    subreaper,  \* PR_SET_CHILD_SUBREAPER is set for the supervisor
    child,      \* the Child handle: pid of the spawned command, 0 before the spawn
    child_id,   \* main's child_id, 0 before it is set
    wstatus,    \* how the command terminated: Running, NoCode or its exit code
    exit_code,  \* main's exit_code, NoCode before the select resolves
    exitStatus, \* exit status of the supervisor process, -1 while it runs
    err,        \* the error main returned with, "none" otherwise
    kpc,        \* kill_children: "idle" | "call" | "next" | "entry" | "open" | "read" | "sleep"
    except,     \* kill_children's argument
    cursor,     \* position of the directory stream in /proc
    entry,      \* the DirEntry being processed
    entryErr,   \* some process_entry of the running pass returned Err
    ret,        \* result of the last kill_children, "none" while one runs: "ok" | "err"
    obs,        \* history: the last stat record read and what was done with it
    sweepDone,  \* history: the final sweep ran to its end
    newQual,    \* history: a process became a child of the supervisor during the pass
    orph,       \* history: the children of the supervisor, but except, that were running
                \* at the read_dir of the pass and still are
    last        \* history: "quiet" when the last finished pass met no error and no
                \* process was re-parented to the supervisor during it, else "dirty";
                \* "none" before a pass has finished and once the processes changed
                \* the table after it

vars == << st, ppid, comm, pc, subreaper, child, child_id, wstatus, exit_code, exitStatus,
           err, kpc, except, cursor, entry, entryErr, ret, obs, sweepDone, newQual,
           orph, last >>

procVars == << st, ppid, comm >>
mainVars == << pc, subreaper, child, child_id, exit_code, exitStatus, err >>
passVars == << kpc, except, cursor, entry, entryErr, ret >>
histVars == << obs, sweepDone, newQual, orph, last >>
envVars == << mainVars, passVars, obs, sweepDone >>

NoEntry == [name |-> NaN, is_dir |-> FALSE]

NoObs == [pid |-> 0, ppid |-> 0, except |-> 0, live |-> FALSE, killed |-> FALSE, sweep |-> FALSE]

\* ------------------------------------------------------- the process table
Listed(p) == st[p] \in {"run", "zombie"}

\* The process that inherits the children of a dying process p: the nearest
\* subreaper ancestor, else init. Every process but init and the supervisor
\* descends from the supervisor.
NewParent(p) ==
    IF p # MyPid /\ subreaper /\ st[MyPid] = "run" THEN MyPid ELSE 1

\* ppid after process p died.
Reparent(p) ==
    [q \in Pids |-> IF Listed(q) /\ ppid[q] = p THEN NewParent(p) ELSE ppid[q]]

\* Processes that become children of the supervisor when p dies.
Adopted(p) ==
    {q \in Pids : st[q] = "run" /\ ppid[q] = p /\ NewParent(p) = MyPid}

\* /proc/<pid>/stat, first line, split at whitespace: pid, "(comm)", state,
\* ppid, ... The first word of comm carries the "(" and the last the ")".
Paren(c) == [i \in 1..Len(c) |-> IF i = 1 \/ i = Len(c) THEN NaN ELSE c[i]]

StatLine(p) == << p >> \o Paren(comm[p]) \o << NaN, ppid[p], ppid[p] >>

\* buf.split_whitespace().nth(3).and_then(|s| s.parse().ok()), NaN for None
ParentPid(buf) == IF Len(buf) >= 4 /\ buf[4] >= 0 THEN buf[4] ELSE NaN

\* exit_code as u8
AsU8(x) == x % 256

\* (mutant) res.code().unwrap_or(0)
UnwrapOr0(code) == IF code = NoCode THEN 0 ELSE code

\* res.code().unwrap_or(1)
UnwrapOr1(code) == IF code = NoCode THEN 1 ELSE code

TypeOK ==
    /\ st \in [Pids -> {"free", "run", "zombie", "gone"}]
    /\ ppid \in [Pids -> 0..MaxPid]
    /\ comm \in [Pids -> Comms]
    /\ pc \in {"start", "args", "spawn", "child_id", "supervising", "cleanup", "done", "failed"}
    /\ subreaper \in BOOLEAN
    /\ child \in 0..MaxPid
    /\ child_id \in 0..MaxPid
    /\ wstatus \in {Running, NoCode} \cup ExitCodes
    /\ exit_code \in {NoCode} \cup 0..255
    /\ exitStatus \in -1..255
    /\ kpc \in {"idle", "call", "next", "entry", "open", "read", "sleep"}
    /\ except \in 0..MaxPid
    /\ cursor \in 0..(NStatic + MaxPid)
    /\ entryErr \in BOOLEAN
    /\ ret \in {"none", "ok", "err"}
    /\ sweepDone \in BOOLEAN
    /\ newQual \in BOOLEAN
    /\ orph \subseteq Pids
    /\ last \in {"none", "quiet", "dirty"}

Init ==
    /\ st = [p \in Pids |-> IF p \in {1, MyPid} THEN "run" ELSE "free"]
    /\ ppid = [p \in Pids |-> IF p = 1 THEN 0 ELSE 1]
    /\ comm = [p \in Pids |-> << NaN >>]
    /\ pc = "start"
    /\ subreaper = FALSE
    /\ child = 0
    /\ child_id = 0
    /\ wstatus = Running
    /\ exit_code = NoCode
    /\ exitStatus = -1
    /\ err = "none"
    /\ kpc = "idle"
    /\ except = 0
    /\ cursor = 0
    /\ entry = NoEntry
    /\ entryErr = FALSE
    /\ ret = "none"
    /\ obs = NoObs
    /\ sweepDone = FALSE
    /\ newQual = FALSE
    /\ orph = {}
    /\ last = "none"

\* ------------------------------------------- the supervised processes (OS)
\* A pass of kill_children is between its read_dir and its return.
InPass == kpc \in {"next", "entry", "open", "read"}

\* fork/exec in the command's process tree: q is any unused pid.
Fork(p, q, c) ==
    /\ st[MyPid] = "run"
    /\ p \notin {1, MyPid} /\ st[p] = "run"
    /\ st[q] = "free"
    /\ st' = [st EXCEPT ![q] = "run"]
    /\ ppid' = [ppid EXCEPT ![q] = p]
    /\ comm' = [comm EXCEPT ![q] = c]
    /\ last' = "none"
    /\ UNCHANGED << envVars, wstatus, newQual, orph >>

\* Process p terminates by itself (w: exit code) or by somebody else's signal
\* (w = NoCode); it stays in the table as a zombie until its parent waits.
Exit(p, w) ==
    /\ st[MyPid] = "run"
    /\ p \notin {1, MyPid} /\ st[p] = "run"
    /\ st' = [st EXCEPT ![p] = "zombie"]
    /\ ppid' = Reparent(p)
    /\ wstatus' = IF p = child THEN w ELSE wstatus
    /\ newQual' = (newQual \/ (InPass /\ Adopted(p) # {}))
    /\ orph' = orph \ {p}
    /\ last' = "none"
    /\ UNCHANGED << comm, envVars >>

\* The parent of zombie p waits for it and p leaves the table. The supervisor
\* waits for the command only (ChildWait), never for an adopted process.
Reap(p) ==
    /\ st[MyPid] = "run"
    /\ st[p] = "zombie"
    /\ ppid[p] # MyPid
    /\ st[ppid[p]] = "run"
    /\ st' = [st EXCEPT ![p] = "gone"]
    /\ ppid' = [ppid EXCEPT ![p] = 0]
    /\ comm' = [comm EXCEPT ![p] = << NaN >>]
    /\ last' = "none"
    /\ UNCHANGED << envVars, wstatus, newQual, orph >>

\* ------------------------------------------------------------------ main
\* The supervisor process ends: its children go to init.
ExitedSt == [st EXCEPT ![MyPid] = "gone"]
ExitedPpid == [q \in Pids |-> IF Listed(q) /\ ppid[q] = MyPid THEN 1 ELSE ppid[q]]

\* main returns Err(e): the process exits with status 1.
Fail(e) ==
    /\ pc' = "failed"
    /\ err' = e
    /\ exitStatus' = 1
    /\ st' = ExitedSt
    /\ ppid' = ExitedPpid

\* (mutant) the result of set_child_subreaper is dropped instead of returned
SetChildSubreaperUnchecked ==
    /\ pc = "start"
    /\ \E ok \in BOOLEAN : subreaper' = ok
    /\ pc' = "args"
    /\ UNCHANGED << st, ppid, err, exitStatus, comm, child, child_id, exit_code, wstatus,
                    passVars, histVars >>

\* nix::sys::prctl::set_child_subreaper(true).context(..)?
SetChildSubreaper ==
    /\ pc = "start"
    /\ \E ok \in BOOLEAN :
        IF ok
        THEN /\ subreaper' = TRUE
             /\ pc' = "args"
             /\ UNCHANGED << st, ppid, err, exitStatus >>
        ELSE /\ Fail("setting child subreaper")
             /\ UNCHANGED subreaper
    /\ UNCHANGED << comm, child, child_id, exit_code, wstatus, passVars, histVars >>

\* (mutant) the missing command is reported but main goes on
CheckArgsLogged ==
    /\ pc = "args"
    /\ pc' = "spawn"
    /\ \E is_empty \in BOOLEAN : err' = IF is_empty THEN "No command provided" ELSE err
    /\ UNCHANGED << st, ppid, exitStatus, comm, subreaper, child, child_id, exit_code,
                    wstatus, passVars, histVars >>

\* if args.is_empty() { bail!("No command provided") }
CheckArgs ==
    /\ pc = "args"
    /\ \E is_empty \in BOOLEAN :
        IF is_empty
        THEN Fail("No command provided")
        ELSE /\ pc' = "spawn"
             /\ UNCHANGED << st, ppid, err, exitStatus >>
    /\ UNCHANGED << comm, subreaper, child, child_id, exit_code, wstatus, passVars, histVars >>

\* command.spawn().context("spawning subprocess")?
Spawn ==
    /\ pc = "spawn"
    /\ \/ /\ Fail("spawning subprocess")
          /\ UNCHANGED << comm, child >>
       \/ \E q \in Pids :
            /\ st[q] = "free"
            /\ st' = [st EXCEPT ![q] = "run"]
            /\ ppid' = [ppid EXCEPT ![q] = MyPid]
            /\ comm' = [comm EXCEPT ![q] = << NaN >>]
            /\ child' = q
            /\ pc' = "child_id"
            /\ UNCHANGED << err, exitStatus >>
    /\ UNCHANGED << subreaper, child_id, exit_code, wstatus, passVars, histVars >>

\* child.id().ok_or(anyhow!("error getting child PID"))?, then the two futures
\* of the select are created: kill_children_forever(child_id), child.wait().
ChildId ==
    /\ pc = "child_id"
    /\ \E some \in BOOLEAN :
        IF some
        THEN /\ child_id' = child
             /\ pc' = "supervising"
             /\ kpc' = "call"
             /\ except' = child
             /\ UNCHANGED << st, ppid, err, exitStatus >>
        ELSE /\ Fail("error getting child PID")
             /\ UNCHANGED << child_id, kpc, except >>
    /\ UNCHANGED << comm, subreaper, child, exit_code, wstatus, cursor, entry, entryErr, ret,
                    histVars >>

\* (mutant) the reap loop is not dropped when the child-wait resolves: its
\* pass goes on, exempting the command's pid
ChildWaitKeepsReaper ==
    /\ pc = "supervising"
    /\ st[child] = "zombie"
    /\ \E ok \in BOOLEAN :
        IF ok
        THEN /\ st' = [st EXCEPT ![child] = "gone"]
             /\ ppid' = [ppid EXCEPT ![child] = 0]
             /\ comm' = [comm EXCEPT ![child] = << NaN >>]
             /\ exit_code' = UnwrapOr1(wstatus)
             /\ pc' = "cleanup"
             /\ kpc' = IF kpc = "sleep" THEN "call" ELSE kpc
             /\ UNCHANGED << err, exitStatus >>
        ELSE /\ Fail("waiting for the child")
             /\ UNCHANGED << comm, exit_code, kpc >>
    /\ obs' = NoObs
    /\ last' = "none"
    /\ UNCHANGED << subreaper, child, child_id, wstatus, sweepDone, except, cursor, entry,
                    entryErr, ret, newQual, orph >>

\* res = child_wait => { res?.code().unwrap_or(1) }: the select resolves, the
\* reaper future is dropped, and main calls kill_children(0).
ChildWait ==
    /\ pc = "supervising"
    /\ st[child] = "zombie"
    /\ \E ok \in BOOLEAN :
        IF ok
        THEN /\ st' = [st EXCEPT ![child] = "gone"]
             /\ ppid' = [ppid EXCEPT ![child] = 0]
             /\ comm' = [comm EXCEPT ![child] = << NaN >>]
             /\ exit_code' = UnwrapOr1(wstatus)
             /\ pc' = "cleanup"
             /\ kpc' = "call"
             /\ except' = 0
             /\ cursor' = 0
             /\ entry' = NoEntry
             /\ entryErr' = FALSE
             /\ ret' = "none"
             /\ newQual' = FALSE
             /\ orph' = {}
             /\ UNCHANGED << err, exitStatus >>
        ELSE /\ Fail("waiting for the child")
             /\ UNCHANGED << comm, exit_code, kpc, except, cursor, entry, entryErr, ret,
                             newQual, orph >>
    /\ obs' = NoObs
    /\ last' = "none"
    /\ UNCHANGED << subreaper, child, child_id, wstatus, sweepDone >>

\* ------------------------------------------------- kill_children(except)
PassLive == pc \in {"supervising", "cleanup"}

\* The running children of the supervisor other than exc.
Orphans(exc) == {p \in Pids : st[p] = "run" /\ ppid[p] = MyPid /\ p # exc}

\* (mutant) kill_children_forever returns after a pass that returned an error
PassReturnEndsLoop(r) ==
    /\ ret' = r
    /\ last' = IF r = "ok" /\ ~entryErr /\ ~newQual THEN "quiet" ELSE "dirty"
    /\ IF pc = "supervising"
       THEN /\ kpc' = IF r = "err" THEN "idle" ELSE "sleep"
            /\ UNCHANGED << st, ppid, pc, err, exitStatus, sweepDone >>
       ELSE /\ kpc' = "idle"
            /\ IF r = "ok"
               THEN /\ pc' = "done"
                    /\ exitStatus' = AsU8(exit_code)
                    /\ sweepDone' = TRUE
                    /\ st' = ExitedSt
                    /\ ppid' = ExitedPpid
                    /\ UNCHANGED err
               ELSE /\ Fail("final sweep")
                    /\ UNCHANGED sweepDone

\* (mutant) kill_children_forever returns the error of a pass to main, which
\* fails with it, instead of logging it
PassReturnPropagated(r) ==
    /\ ret' = r
    /\ last' = IF r = "ok" /\ ~entryErr /\ ~newQual THEN "quiet" ELSE "dirty"
    /\ IF pc = "supervising" /\ r = "ok"
       THEN /\ kpc' = "sleep"
            /\ UNCHANGED << st, ppid, pc, err, exitStatus, sweepDone >>
       ELSE /\ kpc' = "idle"
            /\ IF r = "ok"
               THEN /\ pc' = "done"
                    /\ exitStatus' = AsU8(exit_code)
                    /\ sweepDone' = TRUE
                    /\ st' = ExitedSt
                    /\ ppid' = ExitedPpid
                    /\ UNCHANGED err
               ELSE /\ Fail(IF pc = "supervising" THEN "reap loop" ELSE "final sweep")
                    /\ UNCHANGED sweepDone

\* kill_children returns r. In kill_children_forever the error is logged and
\* the loop sleeps; in main `?` returns the error, else the process exits
\* with ExitCode::from(exit_code as u8).
PassReturn(r) ==
    /\ ret' = r
    /\ last' = IF r = "ok" /\ ~entryErr /\ ~newQual THEN "quiet" ELSE "dirty"
    /\ IF pc = "supervising"
       THEN /\ kpc' = "sleep"
            /\ UNCHANGED << st, ppid, pc, err, exitStatus, sweepDone >>
       ELSE /\ kpc' = "idle"
            /\ IF r = "ok"
               THEN /\ pc' = "done"
                    /\ exitStatus' = AsU8(exit_code)
                    /\ sweepDone' = TRUE
                    /\ st' = ExitedSt
                    /\ ppid' = ExitedPpid
                    /\ UNCHANGED err
               ELSE /\ Fail("final sweep")
                    /\ UNCHANGED sweepDone

\* tokio::fs::read_dir("/proc").await.context("reading /proc")?
ReadDirIO(ok) ==
    /\ PassLive /\ kpc = "call"
    /\ IF ok
       THEN /\ kpc' = "next"
            /\ cursor' = 0
            /\ ret' = "none"
            /\ orph' = Orphans(except)
            /\ UNCHANGED << st, ppid, pc, err, exitStatus, sweepDone, last >>
       ELSE /\ PassReturn("err")
            /\ UNCHANGED << cursor, orph >>
    /\ entryErr' = FALSE
    /\ newQual' = FALSE
    /\ UNCHANGED << comm, subreaper, child, child_id, exit_code, wstatus, except, entry, obs >>

ReadDir == \E ok \in BOOLEAN : ReadDirIO(ok)

\* The process directories the stream has not reached yet.
Ahead == {p \in Pids : Listed(p) /\ NStatic + p > cursor}

Min(S) == CHOOSE x \in S : \A y \in S : x <= y

\* (mutant) the stream is read to its end when the first process directory
\* is asked for
NextEntryReadAheadIO(ok) ==
    /\ PassLive /\ kpc = "next"
    /\ IF ~ok
       THEN /\ PassReturn("err")
            /\ UNCHANGED << cursor, entry >>
       ELSE IF cursor < NStatic
       THEN /\ entry' = StaticEntries[cursor + 1]
            /\ cursor' = cursor + 1
            /\ kpc' = "entry"
            /\ UNCHANGED << st, ppid, pc, err, exitStatus, ret, sweepDone, last >>
       ELSE IF Ahead # {}
       THEN /\ entry' = [name |-> Min(Ahead), is_dir |-> TRUE]
            /\ cursor' = NStatic + MaxPid
            /\ kpc' = "entry"
            /\ UNCHANGED << st, ppid, pc, err, exitStatus, ret, sweepDone, last >>
       ELSE /\ PassReturn("ok")
            /\ UNCHANGED << cursor, entry >>
    /\ obs' = NoObs
    /\ UNCHANGED << comm, subreaper, child, child_id, exit_code, wstatus, except, entryErr,
                    newQual, orph >>

\* entries.next_entry().await.context("reading dir entry")?: the next entry,
\* None at the end of the directory (the loop ends and Ok(()) is returned).
NextEntryIO(ok) ==
    /\ PassLive /\ kpc = "next"
    /\ IF ~ok
       THEN /\ PassReturn("err")
            /\ UNCHANGED << cursor, entry >>
       ELSE IF cursor < NStatic
       THEN /\ entry' = StaticEntries[cursor + 1]
            /\ cursor' = cursor + 1
            /\ kpc' = "entry"
            /\ UNCHANGED << st, ppid, pc, err, exitStatus, ret, sweepDone, last >>
       ELSE IF Ahead # {}
       THEN /\ entry' = [name |-> Min(Ahead), is_dir |-> TRUE]
            /\ cursor' = NStatic + Min(Ahead)
            /\ kpc' = "entry"
            /\ UNCHANGED << st, ppid, pc, err, exitStatus, ret, sweepDone, last >>
       ELSE /\ PassReturn("ok")
            /\ UNCHANGED << cursor, entry >>
    /\ obs' = NoObs
    /\ UNCHANGED << comm, subreaper, child, child_id, exit_code, wstatus, except, entryErr,
                    newQual, orph >>

NextEntry == \E ok \in BOOLEAN : NextEntryIO(ok)

\* (mutant) the exemption is not checked
IsExceptNever(pid, exc) == FALSE

\* if pid == except { return Ok(()) }
IsExcept(pid, exc) == pid = exc

\* process_entry up to File::open: the file type, the name and the exemption.
FileTypeIO(ok) ==
    /\ PassLive /\ kpc = "entry"
    /\ IF ~ok
       THEN /\ entryErr' = TRUE
            /\ kpc' = "next"
       ELSE /\ UNCHANGED entryErr
            /\ kpc' = IF /\ entry.is_dir
                         /\ entry.name # NaN
                         /\ ~IsExcept(entry.name, except)
                      THEN "open" ELSE "next"
    /\ UNCHANGED << procVars, mainVars, wstatus, except, cursor, entry, ret, histVars >>

FileType == \E ok \in BOOLEAN : FileTypeIO(ok)

\* (mutant) the error of File::open is returned by kill_children itself
OpenStatAbortIO(ok) ==
    /\ PassLive /\ kpc = "open"
    /\ IF ~Listed(entry.name)
       THEN /\ kpc' = "next"
            /\ UNCHANGED << entryErr, procVars, mainVars, ret, sweepDone, last >>
       ELSE IF ok
       THEN /\ kpc' = "read"
            /\ UNCHANGED << entryErr, procVars, mainVars, ret, sweepDone, last >>
       ELSE /\ entryErr' = TRUE
            /\ PassReturn("err")
            /\ UNCHANGED << comm, subreaper, child, child_id, exit_code >>
    /\ UNCHANGED << wstatus, except, cursor, entry, obs, newQual, orph >>

\* File::open("/proc/<pid>/stat"): NotFound is ignored, another error is
\* returned to the loop, which logs it.
OpenStatIO(ok) ==
    /\ PassLive /\ kpc = "open"
    /\ IF ~Listed(entry.name)
       THEN /\ kpc' = "next"
            /\ UNCHANGED entryErr
       ELSE IF ok
       THEN /\ kpc' = "read"
            /\ UNCHANGED entryErr
       ELSE /\ kpc' = "next"
            /\ entryErr' = TRUE
    /\ UNCHANGED << procVars, mainVars, wstatus, except, cursor, entry, ret, histVars >>

OpenStat == \E ok \in BOOLEAN : OpenStatIO(ok)

\* if let Some(parent_pid) = parent_pid { if parent_pid == my_pid { kill } }
IsChild(parent_pid, my_pid) == parent_pid # NaN /\ parent_pid = my_pid

\* (mutant) a signal the process ignores is sent instead of SIGKILL
KillIgnored(pid) == UNCHANGED << st, ppid, wstatus, newQual, orph >>

\* signal::kill(Pid::from_raw(pid), SIGKILL) on a listed process: a running
\* process dies (and stays as a zombie), a zombie is not affected.
Kill(pid) ==
    IF st[pid] = "run"
    THEN /\ st' = [st EXCEPT ![pid] = "zombie"]
         /\ ppid' = Reparent(pid)
         /\ wstatus' = IF pid = child THEN NoCode ELSE wstatus
         /\ newQual' = (newQual \/ Adopted(pid) # {})
         /\ orph' = orph \ {pid}
    ELSE UNCHANGED << st, ppid, wstatus, newQual, orph >>

\* read_line of the stat file, the parent pid, and the kill. sent is the
\* outcome of signal::kill: it fails with EPERM for a process the supervisor
\* may not signal; the error is returned to the loop, which logs it.
\* obs.killed records that signal::kill was called.
ReadStatIO(ok, sent) ==
    /\ PassLive /\ kpc = "read"
    /\ kpc' = "next"
    /\ IF ~Listed(entry.name) \/ ~ok
       THEN /\ entryErr' = TRUE
            /\ UNCHANGED << st, ppid, wstatus, obs, newQual, orph >>
       ELSE /\ obs' = [pid |-> entry.name, ppid |-> ppid[entry.name],
                        except |-> except, live |-> st[entry.name] = "run",
                        killed |-> IsChild(ParentPid(StatLine(entry.name)), MyPid),
                        sweep |-> pc = "cleanup"]
            /\ IF IsChild(ParentPid(StatLine(entry.name)), MyPid) /\ sent
               THEN /\ Kill(entry.name)
                    /\ UNCHANGED entryErr
               ELSE /\ entryErr' = (entryErr \/ IsChild(ParentPid(StatLine(entry.name)), MyPid))
                    /\ UNCHANGED << st, ppid, wstatus, newQual, orph >>
    /\ UNCHANGED << comm, mainVars, except, cursor, entry, ret, sweepDone, last >>

ReadStat == \E ok \in BOOLEAN, sent \in BOOLEAN : ReadStatIO(ok, sent)

\* (mutant) the loop ends after a pass that returned an error
SleepUnlessFailed ==
    /\ pc = "supervising" /\ kpc = "sleep"
    /\ kpc' = IF ret = "err" THEN "idle" ELSE "call"
    /\ UNCHANGED << procVars, mainVars, wstatus, except, cursor, entry, entryErr, ret,
                    histVars >>

\* sleep(Duration::from_millis(1000)).await, then the loop calls
\* kill_children(except) again.
Sleep ==
    /\ pc = "supervising" /\ kpc = "sleep"
    /\ kpc' = "call"
    /\ UNCHANGED << procVars, mainVars, wstatus, except, cursor, entry, entryErr, ret,
                    histVars >>

\* ------------------------------------------------------------ the system
Env ==
    \/ \E p \in Pids, q \in Pids, c \in Comms : Fork(p, q, c)
    \/ \E p \in Pids, w \in ExitCodes \cup {NoCode} : Exit(p, w)
    \/ \E p \in Pids : Reap(p)

Main == SetChildSubreaper \/ CheckArgs \/ Spawn \/ ChildId \/ ChildWait

Pass == ReadDir \/ NextEntry \/ FileType \/ OpenStat \/ ReadStat \/ Sleep

Next == Env \/ Main \/ Pass

Spec == Init /\ [][Next]_vars

\* The tokio runtime polls the reap loop whenever it can go on (its I/O has
\* completed, its timer has fired) as long as main is in the select, and
\* main's final sweep likewise: no step of a pass is put off for ever.
SpecFair == Spec /\ WF_vars(Pass)

\* ------------------------------------- kill_children on a static process tree
\* kill_children(except) called again and again (as kill_children_forever
\* does) on a process tree that only the calls themselves change, with no I/O
\* error: the table holds any forest of running processes under the
\* supervisor, with any names, and except is 0 or any of their pids.
\* q is p or an ancestor of p according to the parent map f.
RECURSIVE Above(_, _, _, _)
Above(f, p, q, n) ==
    IF p = q THEN TRUE
    ELSE IF n = 0 \/ p \notin Tree THEN FALSE
    ELSE Above(f, f[p], q, n - 1)

StaticTables ==
    {f \in [Pids -> 0..MaxPid] :
        /\ f[1] = 0 /\ f[MyPid] = 1
        /\ \A p \in Tree : f[p] \in (Tree \cup {MyPid}) \ {p}
        /\ \A p \in Tree : Above(f, p, MyPid, MaxPid)}

InitStatic ==
    /\ st = [p \in Pids |-> "run"]
    /\ ppid \in StaticTables
    /\ comm \in {c \in [Pids -> Comms] : c[1] = << NaN >> /\ c[MyPid] = << NaN >>}
    /\ pc = "supervising"
    /\ subreaper = TRUE
    /\ except \in {0} \cup Tree
    /\ child = except
    /\ child_id = except
    /\ wstatus = Running
    /\ exit_code = NoCode
    /\ exitStatus = -1
    /\ err = "none"
    /\ kpc = "call"
    /\ cursor = 0
    /\ entry = NoEntry
    /\ entryErr = FALSE
    /\ ret = "none"
    /\ obs = NoObs
    /\ sweepDone = FALSE
    /\ newQual = FALSE
    /\ orph = {}
    /\ last = "none"

NextStatic ==
    \/ ReadDirIO(TRUE)
    \/ NextEntryIO(TRUE)
    \/ FileTypeIO(TRUE)
    \/ OpenStatIO(TRUE)
    \/ ReadStatIO(TRUE, TRUE)
    \/ Sleep

SpecStatic == InitStatic /\ [][NextStatic]_vars

\* ------------------------------------------------------------ properties
\* The exit status the command's termination stands for: its exit code in
\* 0..255, 1 when it was killed by a signal.
ChildExit == IF wstatus = NoCode THEN 1 ELSE wstatus % 256

\* C1: no kill signal is ever sent to the supervisor's own pid or to the pid
\* passed as except to the pass that sends it.
C1_NeverSelfNorExcept ==
    obs.killed => (obs.pid # MyPid /\ obs.pid # obs.except)

\* An orphan is killed by a pass that has gone over the running command, which
\* is a child of the supervisor, without signalling it.
C1_Witness ==
    /\ pc = "supervising" /\ obs.killed /\ obs.live
    /\ obs.ppid = MyPid /\ obs.except = child
    /\ st[child] = "run" /\ ppid[child] = MyPid
    /\ obs.pid > child

\* C2: every kill signal goes to a process whose status record, read just
\* before, gave the supervisor's pid as parent pid; a process with another
\* parent is never signalled.
C2_OnlyChildrenSignalled ==
    obs.killed => obs.ppid = MyPid

\* C3: after a complete kill_children(E) pass without error during which no
\* process became a child of the supervisor, no child of the supervisor other
\* than E is running.
C3_PassKillsAllChildren ==
    (kpc = "sleep" /\ ret = "ok" /\ ~entryErr /\ ~newQual) => Orphans(except) = {}

\* C4: when the supervisor exits after the final sweep, no process of the
\* command's tree is running. (Stated for the sweeps that met no error, over
\* processes with one-word names: what is left is the sweep being one pass.)
C4_NoStragglerAtExit ==
    (pc = "done" /\ ~entryErr /\ \A p \in Tree : comm[p] = << NaN >>)
        => \A p \in Tree : st[p] # "run"

\* C5: once the command, spawned and supervised, has terminated, the exit
\* status of the supervisor is the command's exit code (low 8 bits), or 1 if
\* it was killed by a signal.
C5_ExitCodeIsChilds ==
    (exitStatus # -1 /\ child_id # 0 /\ wstatus # Running) => exitStatus = ChildExit

\* C5 (amended): that is the exit status when main returns Ok; when main
\* returns an error (the child-wait or the final sweep failed) it is 1.
C5_ExitCodeWhenOk ==
    /\ pc = "done" => exitStatus = ChildExit
    /\ pc = "failed" => exitStatus = 1

C5_Witness ==
    pc = "done" /\ wstatus = NoCode /\ exitStatus = 1

\* The states of the coordinator.
Phase(p) ==
    CASE p \in {"start", "args", "spawn", "child_id"} -> "START"
      [] p = "supervising" -> "SUPERVISING"
      [] p = "cleanup" -> "CLEANUP"
      [] p = "done" -> "DONE"
      [] p = "failed" -> "ABORT"

PhaseSteps ==
    { << "START", "START" >>, << "START", "SUPERVISING" >>, << "SUPERVISING", "CLEANUP" >>,
      << "CLEANUP", "DONE" >>,
      << "START", "ABORT" >>, << "SUPERVISING", "ABORT" >>, << "CLEANUP", "ABORT" >> }

C7_EarlyAbort ==
    err \in {"setting child subreaper", "No command provided"} =>
        /\ pc = "failed" /\ exitStatus > 0 /\ st[MyPid] = "gone"
        /\ child = 0 /\ \A p \in Tree : st[p] = "free"
        /\ kpc = "idle" /\ ret = "none" /\ cursor = 0 /\ obs = NoObs

C7_Witness ==
    err = "No command provided" /\ pc = "failed" /\ subreaper

\* C8: while the command runs, a process that is a child of the supervisor
\* when a pass starts is not running any more when that pass has returned
\* without error (so an orphan lives through two passes at most).
C8_OrphanKilledWithinTwoPasses ==
    (pc = "supervising" /\ st[child] = "run" /\ kpc = "sleep" /\ ret = "ok" /\ ~entryErr)
        => orph = {}

C10_SweepSignalsExactlyChildren ==
    obs.sweep => (obs.killed <=> obs.ppid = MyPid)

\* The failures of the start-up phase, by the error main returns.
StartupErrs ==
    {"setting child subreaper", "No command provided", "spawning subprocess",
     "error getting child PID"}

SelectResolves == pc = "supervising" /\ pc' # "supervising"

\* C12: a failure on one entry of a pass (file type, open or read of the
\* status record, sending the signal) does not stop the pass: process_entry
\* always hands over to the next next_entry of the same pass (unless the
\* select ends the reap loop meanwhile), a pass in which an entry failed ends
\* with Ok only at the end of the listing, and an entry read after a failure
\* whose parent is the supervisor is signalled.
C12_EntryFailureDoesNotStopPass ==
    [][ /\ (kpc \in {"entry", "open", "read"} /\ kpc' # kpc /\ ~SelectResolves) =>
              /\ kpc' \in {"open", "read", "next"}
              /\ ret' = "none" /\ pc' = pc /\ cursor' = cursor /\ except' = except
        /\ (entryErr /\ kpc = "next" /\ kpc' # kpc /\ ~SelectResolves) =>
              /\ entryErr'
              /\ (cursor < NStatic \/ Ahead # {}) => (kpc' = "entry" \/ ret' = "err")
              /\ kpc' = "entry" => (cursor' > cursor /\ ret' = "none")
              /\ ret' = "ok" => (cursor >= NStatic /\ Ahead = {})
        /\ (entryErr /\ kpc = "read" /\ obs'.pid # 0 /\ obs'.ppid = MyPid) => obs'.killed
      ]_vars

\* C13: kill_children returns Ok only when no entry failed: a pass in which
\* an entry failed returns the errors of its entries.
C13_ReturnsEntryErrors ==
    ret = "ok" => ~entryErr

\* C13 (amended): kill_children returns Ok when the listing was read to its
\* end, whether or not entries failed, and Err only when read_dir or
\* next_entry failed; process_entry never makes the pass return.
C13_ResultIsListingResult ==
    [][ /\ (ret' = "ok" /\ ret # "ok") =>
              (kpc = "next" /\ cursor >= NStatic /\ Ahead = {} /\ entryErr' = entryErr)
        /\ (ret' = "err" /\ kpc # "sleep" /\ kpc' # kpc) => kpc \in {"call", "next"}
        /\ (kpc \in {"entry", "open", "read"} /\ kpc' # kpc /\ ~SelectResolves) =>
              (ret' = "none" /\ kpc' \in {"open", "read", "next"})
      ]_vars

\* A pass of the reap loop has returned Ok although one of its entries failed.
C13_Witness ==
    pc = "supervising" /\ kpc = "sleep" /\ ret = "ok" /\ entryErr

\* C14: the reap loop never stops by itself: as long as the command has not
\* been waited for, kill_children is called again and again, whether the
\* passes succeed or fail.
C14_PassesForever ==
    <>[](pc = "supervising") => []<><< ReadDir >>_vars

\* The loop has slept after a pass that failed and has called kill_children
\* again, the command still running.
C14_Witness ==
    pc = "supervising" /\ st[child] = "run" /\ kpc = "call" /\ ret = "err"

\* C15: the reap-loop branch of the select never resolves: while main is in
\* the select the future of kill_children_forever is pending at one of its
\* awaits, never finished, and main leaves the select through the child-wait
\* branch only, when the command has terminated (with the command's status,
\* or with the error of the wait).
C15_ReaperNeverResolves ==
    [][ /\ pc = "supervising" => kpc \in {"call", "next", "entry", "open", "read", "sleep"}
        /\ SelectResolves =>
              /\ st[child] = "zombie"
              /\ \/ pc' = "cleanup" /\ exit_code' = UnwrapOr1(wstatus) /\ st'[child] = "gone"
                 \/ pc' = "failed" /\ err' = "waiting for the child"
      ]_vars

\* The select has been resolved by the child-wait, the command having exited
\* with 255.
C15_Witness ==
    pc = "cleanup" /\ kpc = "call" /\ wstatus = 255 /\ exit_code = 255 /\ st[child] = "gone"

\* C16: once the child-wait has resolved, the reap loop takes no further
\* step: the step that resolves the select sends no signal and leaves no
\* pass behind but the final sweep, about to call read_dir with except = 0;
\* from then on every status record is read, and every signal sent, by a
\* pass with except = 0; and when main has returned nothing moves any more.
C16_ReapLoopAbandoned ==
    [][ /\ SelectResolves =>
              /\ obs' = NoObs
              /\ \A p \in Pids \ {child, MyPid} : st'[p] = st[p]
              /\ pc' = "cleanup" =>
                    (kpc' = "call" /\ except' = 0 /\ cursor' = 0 /\ entry' = NoEntry)
        /\ pc = "cleanup" =>
              /\ except = 0 /\ except' = 0
              /\ (obs' # obs /\ obs' # NoObs) => (obs'.sweep /\ obs'.except = 0)
              /\ (\E p \in Pids : p # MyPid /\ st[p] = "run" /\ st'[p] = "zombie" /\ kpc' # kpc)
                    => (kpc = "read" /\ obs'.killed /\ obs'.sweep /\ obs'.except = 0)
        /\ pc \in {"done", "failed"} => UNCHANGED << kpc, cursor, entry, obs, procVars >>
      ]_vars

\* The final sweep has killed a running process.
C16_Witness ==
    /\ pc = "cleanup" /\ kpc = "next" /\ except = 0
    /\ obs.sweep /\ obs.killed /\ obs.live /\ obs.except = 0 /\ st[obs.pid] = "zombie"

\* C17: within one pass the whole process table is listed before a kill of
\* the pass is issued: when a signal has been sent no entry of the listing
\* is unread.
C17_ListedBeforeAnyKill ==
    (InPass /\ obs.killed) => (cursor >= NStatic /\ Ahead = {})

\* C17 (amended): within one pass the listing and the kills alternate: an
\* entry is examined, and signalled if its record qualifies, before the next
\* entry is read; a status record is read, and a signal sent, only for the
\* entry the stream is at, and reading the next entry sends nothing.
C17_KillBeforeNextEntry ==
    [][ /\ (obs' # obs /\ obs' # NoObs) =>
              /\ kpc = "read" /\ kpc' = "next"
              /\ obs'.pid = entry.name /\ cursor = NStatic + entry.name
              /\ entry' = entry /\ cursor' = cursor
        /\ \A p \in Pids : (st[p] = "run" /\ st'[p] = "zombie") =>
              (kpc = "read" /\ p = entry.name /\ cursor = NStatic + p /\ obs'.killed)
        /\ (kpc = "next" /\ kpc' = "entry") =>
              (cursor' > cursor /\ obs' = NoObs /\ st' = st)
      ]_vars

\* A running process has been killed while process directories of the
\* listing are still unread.
C17_Witness ==
    /\ InPass /\ kpc = "next" /\ obs.killed /\ obs.live /\ st[obs.pid] = "zombie"
    /\ \E p \in Ahead : p > obs.pid /\ st[p] = "run" /\ ppid[p] = MyPid /\ p # except

\* C18: when the process of an entry has left the table after it was listed
\* and before its status record is read, the pass sends no signal, raises no
\* error for the entry and goes on with the next entry.
C18_VanishedEntrySkippedSilently ==
    [][ (kpc \in {"open", "read"} /\ ~Listed(entry.name) /\ kpc' # kpc /\ ~SelectResolves) =>
            /\ kpc' = "next" /\ ret' = "none"
            /\ entryErr' = entryErr
            /\ obs' = obs /\ st' = st
      ]_vars

\* The status record of a process with the given pid and parent pid whose
\* name is one word.
PlainStatLine(pid, parent) == << pid, NaN, NaN, parent, parent >>

\* C19: the kill decision for an entry depends on its pid, its parent pid,
\* the supervisor's pid and the exempt pid only: an entry whose record was
\* read gets the decision that an entry with the same pid and parent pid and
\* a name of one word gets (the record of an entry with the exempt pid is
\* never read).
C19_DecisionIgnoresName ==
    obs # NoObs =>
        (obs.killed <=> IsChild(ParentPid(PlainStatLine(obs.pid, obs.ppid)), MyPid))

\* C20: the pid of the command is never signalled (no pid being used twice
\* in a run): no pass opens the status record of the command, no signal goes
\* to its pid, and during the final sweep, which exempts nothing, the command
\* has been waited for and is not in the process table.
C20_ChildNeverSignalled ==
    /\ (child # 0 /\ obs # NoObs) => obs.pid # child
    /\ (PassLive /\ kpc \in {"open", "read"}) => entry.name # child
    /\ pc = "cleanup" => (except = 0 /\ st[child] = "gone" /\ child \notin Ahead)

\* The final sweep has killed an orphan listed after the place of the
\* command's pid.
C20_Witness ==
    /\ pc = "cleanup" /\ st[child] = "gone"
    /\ obs.sweep /\ obs.killed /\ obs.live /\ obs.pid > child /\ cursor > NStatic + child

====
